---- MODULE Spec2Model ----
(***************************************************************************)
(* Model of Stackistry's src/utils.cpp: the pixel-format matcher           *)
(* (FindMatchingFormat), the image-to-surface converter                    *)
(* (ConvertImgToSurface) and the output-format registry                    *)
(* (EnumerateSupportedOutputFmts, GetOutputFormatDescr).                   *)
(*                                                                         *)
(* The three subsystems share no state, so each has its own specification  *)
(* (SpecFmt, SpecSurf, SpecReg); the variables of the other two stay at    *)
(* their initial values.                                                   *)
(***************************************************************************)
EXTENDS Integers, Sequences, FiniteSets

VARIABLES
    \* ---- pixel-format catalog (libskry tables read by FindMatchingFormat)
    NUM_CHANNELS,            \* pixel format -> channel count
    BITS_PER_CHANNEL,        \* pixel format -> bits per channel
    \* ---- last FindMatchingFormat call
    fmCalled, fmOutputFmt, fmNumChannels, fmResult,
    \* ---- Vars::outputFormatDescription and its collaborators
    supportedFmts,           \* list reported by SKRY_get_supported_output_formats
    outputFormatDescription, \* the registry vector
    numEnumCalls,            \* completed EnumerateSupportedOutputFmts calls
    regPc,                   \* "run" | "aborted" (assert(0) reached)
    getCalled, getArg, getResult,
    \* ---- one ConvertImgToSurface call
    imgFormat, imgWidth, imgHeight, imgStride,   \* the argument image
    surfStride,              \* stride the rendering backend will choose
    convOk,                  \* whether libskry can convert img to BGRA8
    pc,                      \* position inside ConvertImgToSurface
    pRgbaStride,             \* row byte length of *pRgba (0 before it is set)
    allocated,               \* Cairo::ImageSurface::create has run
    surfData,                \* surface buffer: byte offset -> byte
    row,                     \* loop variable
    copyLen, copySrcLen, copyLo, copyHi,  \* the last memcpy: n, source row length, write range
    result                   \* "none" | "null" | "surface"

fmtVars  == <<NUM_CHANNELS, BITS_PER_CHANNEL, fmCalled, fmOutputFmt, fmNumChannels, fmResult>>
regVars  == <<supportedFmts, outputFormatDescription, numEnumCalls, regPc,
              getCalled, getArg, getResult>>
surfVars == <<imgFormat, imgWidth, imgHeight, imgStride, surfStride, convOk, pc,
              pRgbaStride, allocated, surfData, row, copyLen, copySrcLen, copyLo,
              copyHi, result>>
vars == <<fmtVars, regVars, surfVars>>

(***************************************************************************)
(* Bounds                                                                  *)
(***************************************************************************)
SKRY_NUM_PIX_FORMATS == 5    \* size of the pixel-format enumeration explored
MaxChannels == 2             \* largest channel count held by a catalog entry
MaxEnumCalls == 2            \* EnumerateSupportedOutputFmts calls explored
MaxWidth == 2
MaxHeight == 2
MaxPad == 2                  \* pad bytes a stride may add to the packed row

(***************************************************************************)
(* Enumerations                                                            *)
(***************************************************************************)
SKRY_PIX_INVALID == 0
SKRY_PIX_PAL8 == 1
PixelFormats == 0 .. (SKRY_NUM_PIX_FORMATS - 1)

SKRY_BMP_8 == "SKRY_BMP_8"
SKRY_TIFF_16 == "SKRY_TIFF_16"
SKRY_PNG_8 == "SKRY_PNG_8"
OutputFormats == {SKRY_BMP_8, SKRY_TIFF_16, SKRY_PNG_8}

BitDepths == {8, 16}

\* Required bits per channel of each output format, as the names of the
\* formats and their descriptors state ("BMP 8-bit", "TIFF 16-bit", "PNG 8-bit").
OUTPUT_FMT_BITS_PER_CHANNEL ==
    [f \in OutputFormats |-> IF f = SKRY_TIFF_16 THEN 16 ELSE 8]

\* The catalogs the model explores: every assignment of a channel count and
\* a bit depth to the identifiers above the invalid sentinel.
Catalogs(range) ==
    {t \in [PixelFormats -> range \cup {0}] :
        /\ t[SKRY_PIX_INVALID] = 0
        /\ \A i \in PixelFormats \ {SKRY_PIX_INVALID} : t[i] # 0}

(***************************************************************************)
(* FindMatchingFormat                                                      *)
(***************************************************************************)
\* Mutant: the palette-indexed format is not excluded.
FormatMatches_WithPalette(i, outputFmt, numChannels) ==
    /\ NUM_CHANNELS[i] = numChannels
    /\ OUTPUT_FMT_BITS_PER_CHANNEL[outputFmt] = BITS_PER_CHANNEL[i]

\* Mutant: the bit depth is not compared.
FormatMatches_NoBits(i, outputFmt, numChannels) ==
    /\ i # SKRY_PIX_PAL8
    /\ NUM_CHANNELS[i] = numChannels

\* The condition of the if statement inside the scan.
FormatMatches(i, outputFmt, numChannels) ==
    /\ i # SKRY_PIX_PAL8
    /\ NUM_CHANNELS[i] = numChannels
    /\ OUTPUT_FMT_BITS_PER_CHANNEL[outputFmt] = BITS_PER_CHANNEL[i]

\* The for loop from identifier i upwards, up to (not including) last.
RECURSIVE ScanUp(_, _, _, _)
ScanUp(i, last, outputFmt, numChannels) ==
    IF i >= last THEN SKRY_PIX_INVALID
    ELSE IF FormatMatches(i, outputFmt, numChannels) THEN i
    ELSE ScanUp(i + 1, last, outputFmt, numChannels)

\* A scan from identifier i downwards (used by a mutant only).
RECURSIVE ScanDown(_, _, _)
ScanDown(i, outputFmt, numChannels) ==
    IF i <= SKRY_PIX_INVALID THEN SKRY_PIX_INVALID
    ELSE IF FormatMatches(i, outputFmt, numChannels) THEN i
    ELSE ScanDown(i - 1, outputFmt, numChannels)

\* Mutant: the scan runs in descending identifier order.
FindMatchingFormat_Descending(outputFmt, numChannels) ==
    ScanDown(SKRY_NUM_PIX_FORMATS - 1, outputFmt, numChannels)

\* Mutant: the loop stops one identifier early.
FindMatchingFormat_StopsEarly(outputFmt, numChannels) ==
    ScanUp(SKRY_PIX_INVALID + 1, SKRY_NUM_PIX_FORMATS - 1, outputFmt, numChannels)

FindMatchingFormat(outputFmt, numChannels) ==
    ScanUp(SKRY_PIX_INVALID + 1, SKRY_NUM_PIX_FORMATS, outputFmt, numChannels)

\* A caller invokes FindMatchingFormat(outputFmt, numChannels).
CallFindMatchingFormat(outputFmt, numChannels) ==
    /\ fmCalled' = TRUE
    /\ fmOutputFmt' = outputFmt
    /\ fmNumChannels' = numChannels
    /\ fmResult' = FindMatchingFormat(outputFmt, numChannels)
    /\ UNCHANGED <<NUM_CHANNELS, BITS_PER_CHANNEL, regVars, surfVars>>

(***************************************************************************)
(* Output-format registry                                                  *)
(***************************************************************************)
\* The descriptor EnumerateSupportedOutputFmts builds for one format: the
\* default-constructed OutputFormatDescr_t, its skryOutpFmt, then the switch.
Describe(fmt) ==
    CASE fmt = SKRY_BMP_8 ->
           [skryOutpFmt |-> fmt, name |-> "BMP 8-bit",
            patterns |-> <<"*.bmp">>, defaultExtension |-> ".bmp"]
      [] fmt = SKRY_TIFF_16 ->
           [skryOutpFmt |-> fmt, name |-> "TIFF 16-bit (uncompressed)",
            patterns |-> <<"*.tif", "*.tiff">>, defaultExtension |-> ".tif"]
      [] fmt = SKRY_PNG_8 ->
           [skryOutpFmt |-> fmt, name |-> "PNG 8-bit",
            patterns |-> <<"*.png">>, defaultExtension |-> ".png"]
      [] OTHER ->
           [skryOutpFmt |-> fmt, name |-> "",
            patterns |-> <<>>, defaultExtension |-> ""]

\* The for loop of EnumerateSupportedOutputFmts from index i (1-based) on:
\* one push_back per reported format.
RECURSIVE PushFrom(_, _, _)
PushFrom(reg, fmts, i) ==
    IF i > Len(fmts) THEN reg
    ELSE PushFrom(Append(reg, Describe(fmts[i])), fmts, i + 1)

\* Mutant: each descriptor is inserted at the front of the vector.
RECURSIVE PushFrontFrom(_, _, _)
PushFrontFrom(reg, fmts, i) ==
    IF i > Len(fmts) THEN reg
    ELSE PushFrontFrom(<<Describe(fmts[i])>> \o reg, fmts, i + 1)

PushDescriptors_Front(reg, fmts) == PushFrontFrom(reg, fmts, 1)

\* Mutant: the vector is cleared before it is filled.
PushDescriptors_ClearFirst(reg, fmts) == PushFrom(<<>>, fmts, 1)

\* The registry after one run of EnumerateSupportedOutputFmts' loop.
PushDescriptors(reg, fmts) == PushFrom(reg, fmts, 1)

\* The range-for of GetOutputFormatDescr from index i on: the index of the
\* first descriptor whose skryOutpFmt is outpFmt, 0 when the loop runs out.
RECURSIVE FindDescrFrom(_, _, _)
FindDescrFrom(reg, i, outpFmt) ==
    IF i > Len(reg) THEN 0
    ELSE IF reg[i].skryOutpFmt = outpFmt THEN i
    ELSE FindDescrFrom(reg, i + 1, outpFmt)

\* Mutant: the first descriptor is returned without comparing its format.
FindDescr_NoCompare(reg, outpFmt) == IF Len(reg) > 0 THEN 1 ELSE 0

FindDescr(reg, outpFmt) == FindDescrFrom(reg, 1, outpFmt)

\* void EnumerateSupportedOutputFmts().  push_back may reallocate the vector,
\* so a descriptor reference handed out earlier is no longer one to rely on.
EnumerateSupportedOutputFmts ==
    /\ regPc = "run"
    /\ numEnumCalls < MaxEnumCalls
    /\ outputFormatDescription' = PushDescriptors(outputFormatDescription, supportedFmts)
    /\ numEnumCalls' = numEnumCalls + 1
    /\ getCalled' = FALSE
    /\ getArg' = SKRY_BMP_8
    /\ getResult' = 0
    /\ UNCHANGED <<supportedFmts, regPc, fmtVars, surfVars>>

\* GetOutputFormatDescr(outpFmt).  getResult is the position of the returned
\* descriptor in the vector.  When the loop finds nothing, assert(0) aborts
\* the program; in a build with NDEBUG the function flows off its end and the
\* caller receives a reference to no descriptor (getResult = 0).
GetOutputFormatDescr(outpFmt) ==
    /\ regPc = "run"
    /\ getCalled' = TRUE
    /\ getArg' = outpFmt
    /\ LET idx == FindDescr(outputFormatDescription, outpFmt)
       IN  \/ /\ idx # 0
              /\ getResult' = idx
              /\ regPc' = "run"
           \/ /\ idx = 0
              /\ getResult' = 0
              /\ regPc' \in {"aborted", "run"}
    /\ UNCHANGED <<supportedFmts, outputFormatDescription, numEnumCalls, fmtVars, surfVars>>

(***************************************************************************)
(* ConvertImgToSurface                                                     *)
(***************************************************************************)
SKRY_PIX_BGRA8 == 4
BytesPerPixel == 4       \* SKRY_PIX_BGRA8 and Cairo FORMAT_RGB24: 32 bits per pixel

\* Bytes are tagged with their origin so that a copy can be told from any
\* other content: <<r, k>> is byte k of row r of *pRgba.
SrcByte(r, k) == <<r, k>>
Untouched == <<-1, -1>>  \* surface byte no memcpy has written
Garbage == <<-2, -2>>    \* whatever lies past the end of a source row

\* Row strides the data model allows for a row of w pixels of 4 bytes.
Strides(w) == {BytesPerPixel * w + p : p \in 0 .. MaxPad}

\* Mutant: the loop leaves the last row out.
LoopCond_OffByOne(r, height) == r + 1 < height

\* row < pRgba->GetHeight()
LoopCond(r, height) == r < height

\* Mutant: the destination offset is computed from the source image's stride.
DstOffset_SrcStride(r, stride) == r * pRgbaStride

\* row * surface->get_stride()
DstOffset(r, stride) == r * stride

\* std::memcpy(data + dstOff, GetLine(srcRow), n), the source row being srcLen
\* bytes long: bytes read past the end of the row are not the row's.
Memcpy(data, dstOff, srcRow, n, srcLen) ==
    [k \in DOMAIN data |->
        IF dstOff <= k /\ k < dstOff + n
        THEN IF k - dstOff < srcLen THEN SrcByte(srcRow, k - dstOff) ELSE Garbage
        ELSE data[k]]

\* Lines 50-62: choose pRgba, converting the image when it is not BGRA8.  The
\* converted image has the dimensions of img and a stride libskry chooses.
ChooseSource ==
    /\ pc = "start"
    /\ \/ /\ imgFormat # SKRY_PIX_BGRA8
          /\ ~convOk
          /\ result' = "null"
          /\ pc' = "done"
          /\ UNCHANGED pRgbaStride
       \/ /\ imgFormat # SKRY_PIX_BGRA8
          /\ convOk
          /\ pRgbaStride' \in Strides(imgWidth)
          /\ pc' = "create"
          /\ UNCHANGED result
       \/ /\ imgFormat = SKRY_PIX_BGRA8
          /\ pRgbaStride' = imgStride
          /\ pc' = "create"
          /\ UNCHANGED result
    /\ UNCHANGED <<imgFormat, imgWidth, imgHeight, imgStride, surfStride, convOk,
                   allocated, surfData, row, copyLen, copySrcLen, copyLo, copyHi,
                   fmtVars, regVars>>

\* Line 64: Cairo::ImageSurface::create(FORMAT_RGB24, width, height), and the
\* loop's initialisation.
CreateSurface ==
    /\ pc = "create"
    /\ allocated' = TRUE
    /\ surfData' = [k \in 0 .. (imgHeight * surfStride - 1) |-> Untouched]
    /\ row' = 0
    /\ pc' = "loop"
    /\ UNCHANGED <<imgFormat, imgWidth, imgHeight, imgStride, surfStride, convOk,
                   pRgbaStride, copyLen, copySrcLen, copyLo, copyHi, result,
                   fmtVars, regVars>>

\* Lines 65-66: one iteration of the loop.  A copy longer than the source row
\* reads past the row's end, which is undefined: the process may be killed,
\* or the copy completes with bytes that are not the row's.
CopyRow ==
    /\ pc = "loop"
    /\ LoopCond(row, imgHeight)
    /\ copyLen' = surfStride
    /\ copySrcLen' = pRgbaStride
    /\ copyLo' = DstOffset(row, surfStride)
    /\ copyHi' = DstOffset(row, surfStride) + surfStride - 1
    /\ \/ /\ surfData' = Memcpy(surfData, DstOffset(row, surfStride), row,
                                surfStride, pRgbaStride)
          /\ row' = row + 1
          /\ pc' = "loop"
       \/ /\ surfStride > pRgbaStride
          /\ pc' = "crashed"
          /\ UNCHANGED <<surfData, row>>
    /\ UNCHANGED <<imgFormat, imgWidth, imgHeight, imgStride, surfStride, convOk,
                   pRgbaStride, allocated, result, fmtVars, regVars>>

\* Line 68: return surface.
ReturnSurface ==
    /\ pc = "loop"
    /\ ~LoopCond(row, imgHeight)
    /\ result' = "surface"
    /\ pc' = "done"
    /\ UNCHANGED <<imgFormat, imgWidth, imgHeight, imgStride, surfStride, convOk,
                   pRgbaStride, allocated, surfData, row, copyLen, copySrcLen,
                   copyLo, copyHi, fmtVars, regVars>>

(***************************************************************************)
(* Initial states and specifications                                       *)
(***************************************************************************)
Injective(seq) == \A i, j \in 1 .. Len(seq) : seq[i] = seq[j] => i = j

\* The lists SKRY_get_supported_output_formats may report: any selection of
\* the output formats in any order, each at most once.
SupportedLists ==
    {seq \in UNION {[1 .. n -> OutputFormats] : n \in 0 .. Cardinality(OutputFormats)} :
        Injective(seq)}

FmtIdle ==
    /\ fmCalled = FALSE
    /\ fmOutputFmt = SKRY_BMP_8
    /\ fmNumChannels = 0
    /\ fmResult = SKRY_PIX_INVALID

RegIdle ==
    /\ outputFormatDescription = <<>>
    /\ numEnumCalls = 0
    /\ regPc = "run"
    /\ getCalled = FALSE
    /\ getArg = SKRY_BMP_8
    /\ getResult = 0

SurfIdle ==
    /\ pc = "start"
    /\ pRgbaStride = 0
    /\ allocated = FALSE
    /\ surfData = <<>>
    /\ row = 0
    /\ copyLen = 0
    /\ copySrcLen = 0
    /\ copyLo = 0
    /\ copyHi = 0
    /\ result = "none"

\* One fixed catalog, supported list and image for the specifications that
\* do not explore them.
FixedCatalog ==
    /\ NUM_CHANNELS = [i \in PixelFormats |-> IF i = SKRY_PIX_INVALID THEN 0 ELSE 1]
    /\ BITS_PER_CHANNEL = [i \in PixelFormats |-> IF i = SKRY_PIX_INVALID THEN 0 ELSE 8]

FixedSupported == supportedFmts = <<SKRY_BMP_8, SKRY_TIFF_16, SKRY_PNG_8>>

FixedImage ==
    /\ imgFormat = SKRY_PIX_BGRA8
    /\ imgWidth = 1
    /\ imgHeight = 1
    /\ imgStride = BytesPerPixel
    /\ surfStride = BytesPerPixel
    /\ convOk = TRUE

InitFmt ==
    /\ NUM_CHANNELS \in Catalogs(1 .. MaxChannels)
    /\ BITS_PER_CHANNEL \in Catalogs(BitDepths)
    /\ FmtIdle
    /\ FixedSupported /\ RegIdle
    /\ FixedImage /\ SurfIdle

InitReg ==
    /\ supportedFmts \in SupportedLists
    /\ RegIdle
    /\ FixedCatalog /\ FmtIdle
    /\ FixedImage /\ SurfIdle

InitSurf ==
    /\ imgFormat \in PixelFormats \ {SKRY_PIX_INVALID}
    /\ imgWidth \in 1 .. MaxWidth
    /\ imgHeight \in 1 .. MaxHeight
    /\ imgStride \in IF imgFormat = SKRY_PIX_BGRA8 THEN Strides(imgWidth) ELSE {0}
    /\ surfStride \in Strides(imgWidth)
    /\ convOk \in IF imgFormat = SKRY_PIX_BGRA8 THEN {TRUE} ELSE BOOLEAN
    /\ SurfIdle
    /\ FixedCatalog /\ FmtIdle
    /\ FixedSupported /\ RegIdle

NextFmt ==
    \E outputFmt \in OutputFormats, numChannels \in 0 .. (MaxChannels + 1) :
        CallFindMatchingFormat(outputFmt, numChannels)

NextReg ==
    \/ EnumerateSupportedOutputFmts
    \/ \E outpFmt \in OutputFormats : GetOutputFormatDescr(outpFmt)

NextSurf ==
    \/ ChooseSource
    \/ CreateSurface
    \/ CopyRow
    \/ ReturnSurface

SpecFmt == InitFmt /\ [][NextFmt]_vars
SpecReg == InitReg /\ [][NextReg]_vars
SpecSurf == InitSurf /\ [][NextSurf]_vars

Init == InitFmt \/ InitReg \/ InitSurf
Next == NextFmt \/ NextReg \/ NextSurf
Spec == Init /\ [][Next]_vars

(***************************************************************************)
(* Properties of FindMatchingFormat (checked under SpecFmt)                *)
(***************************************************************************)
\* The catalog entries, other than the invalid sentinel and the
\* palette-indexed format, that satisfy a request.
NonPaletteMatches(outputFmt, numChannels) ==
    {p \in PixelFormats \ {SKRY_PIX_INVALID, SKRY_PIX_PAL8} :
        /\ NUM_CHANNELS[p] = numChannels
        /\ BITS_PER_CHANNEL[p] = OUTPUT_FMT_BITS_PER_CHANNEL[outputFmt]}

\* C1: whenever the catalog holds a matching non-palette format for
\* (outputFmt, numChannels), the format FindMatchingFormat returns has
\* exactly numChannels channels and the output format's bits per channel.
C1_ResultMatchesRequest ==
    (fmCalled /\ NonPaletteMatches(fmOutputFmt, fmNumChannels) # {}) =>
        /\ fmResult \in PixelFormats
        /\ NUM_CHANNELS[fmResult] = fmNumChannels
        /\ BITS_PER_CHANNEL[fmResult] = OUTPUT_FMT_BITS_PER_CHANNEL[fmOutputFmt]

C1_Witness ==
    /\ fmCalled
    /\ fmOutputFmt = SKRY_TIFF_16
    /\ fmNumChannels = MaxChannels
    /\ NonPaletteMatches(fmOutputFmt, fmNumChannels) # {}
    /\ fmResult # SKRY_PIX_INVALID

C3_NeverPalette == fmCalled => fmResult # SKRY_PIX_PAL8

C3_Witness ==
    /\ fmCalled
    /\ NUM_CHANNELS[SKRY_PIX_PAL8] = fmNumChannels
    /\ BITS_PER_CHANNEL[SKRY_PIX_PAL8] = OUTPUT_FMT_BITS_PER_CHANNEL[fmOutputFmt]
    /\ NonPaletteMatches(fmOutputFmt, fmNumChannels) = {}
    /\ fmResult = SKRY_PIX_INVALID

\* C4: FindMatchingFormat returns the invalid sentinel exactly when no
\* non-palette catalog entry satisfies the request.
C4_InvalidIffNoMatch ==
    fmCalled =>
        (fmResult = SKRY_PIX_INVALID <=> NonPaletteMatches(fmOutputFmt, fmNumChannels) = {})

C4_Witness ==
    /\ fmCalled
    /\ fmNumChannels = MaxChannels + 1
    /\ NonPaletteMatches(fmOutputFmt, fmNumChannels) = {}
    /\ fmResult = SKRY_PIX_INVALID

(***************************************************************************)
(* Properties of ConvertImgToSurface (checked under SpecSurf)              *)
(***************************************************************************)
\* The logical bytes (width * 4) of surface row r are those of source row r.
RowCopied(r) ==
    \A k \in 0 .. (BytesPerPixel * imgWidth - 1) :
        /\ (r * surfStride + k) \in DOMAIN surfData
        /\ surfData[r * surfStride + k] = SrcByte(r, k)

\* C5: a call that returns either returns null without having allocated a
\* surface (the image is not BGRA8 and its conversion failed), or returns a
\* surface all of whose rows were written from the corresponding source row;
\* a surface is the result only once the call has finished.
C5_NoPartialSurface ==
    /\ result # "none" => pc = "done"
    /\ pc = "done" =>
        \/ /\ result = "null"
           /\ ~allocated
           /\ imgFormat # SKRY_PIX_BGRA8 /\ ~convOk
        \/ /\ result = "surface"
           /\ allocated
           /\ imgFormat = SKRY_PIX_BGRA8 \/ convOk
           /\ \A r \in 0 .. (imgHeight - 1) : RowCopied(r)

C5_Witness ==
    /\ pc = "done"
    /\ imgFormat # SKRY_PIX_BGRA8
    /\ convOk
    /\ imgHeight >= 2
    /\ result = "surface"
    /\ \A r \in 0 .. (imgHeight - 1) : surfData[r * surfStride] # Untouched

\* C6: for an image already in BGRA8 the returned surface holds, at offset
\* r * destination stride, the width * 4 bytes of source row r, whatever the
\* source and destination strides are.
C6_RowsIdentical ==
    (pc = "done" /\ imgFormat = SKRY_PIX_BGRA8) =>
        /\ result = "surface"
        /\ \A r \in 0 .. (imgHeight - 1) :
              \A k \in 0 .. (BytesPerPixel * imgWidth - 1) :
                  surfData[r * surfStride + k] = <<r, k>>

C6_Witness ==
    /\ pc = "done"
    /\ imgFormat = SKRY_PIX_BGRA8
    /\ imgStride # surfStride
    /\ imgHeight >= 2
    /\ imgWidth >= 2
    /\ result = "surface"

\* C10 as stated: every row copy stays inside both buffers: the bytes copied
\* do not exceed the length of the source row, and the write range lies
\* inside the surface buffer of height * stride bytes.
C10_CopyInsideBothBuffers ==
    copyLen > 0 =>
        /\ copyLen <= copySrcLen
        /\ 0 <= copyLo
        /\ copyHi <= imgHeight * surfStride - 1

(***************************************************************************)
(* Properties of the output-format registry (checked under SpecReg)        *)
(***************************************************************************)
Reported == {supportedFmts[i] : i \in 1 .. Len(supportedFmts)}

\* C7: after one call on the empty registry there is one descriptor per
\* reported format, no two descriptors share a format, and the i-th
\* descriptor is for the i-th reported format.
C7_OneDescriptorPerFormatInOrder ==
    numEnumCalls = 1 =>
        /\ Len(outputFormatDescription) = Len(supportedFmts)
        /\ \A i \in 1 .. Len(outputFormatDescription) :
              outputFormatDescription[i].skryOutpFmt = supportedFmts[i]
        /\ \A i, j \in 1 .. Len(outputFormatDescription) :
              outputFormatDescription[i].skryOutpFmt = outputFormatDescription[j].skryOutpFmt
                  => i = j
        /\ \A f \in Reported :
              Cardinality({i \in 1 .. Len(outputFormatDescription) :
                              outputFormatDescription[i].skryOutpFmt = f}) = 1

C7_Witness ==
    /\ numEnumCalls = 1
    /\ Len(supportedFmts) = 3
    /\ supportedFmts[1] = SKRY_PNG_8
    /\ Len(outputFormatDescription) = 3
    /\ outputFormatDescription[1].name = "PNG 8-bit"

\* C8: after initialization a lookup of a reported format returns a
\* descriptor of the registry for that format without reaching assert(0),
\* and no lookup changes the registry.
C8_LookupState ==
    (getCalled /\ numEnumCalls >= 1 /\ getArg \in Reported) =>
        /\ regPc = "run"
        /\ getResult \in 1 .. Len(outputFormatDescription)
        /\ outputFormatDescription[getResult].skryOutpFmt = getArg

C8_LookupFindsDescriptor ==
    /\ []C8_LookupState
    /\ [][(\E f \in OutputFormats : GetOutputFormatDescr(f))
              => outputFormatDescription' = outputFormatDescription]_vars

C8_Witness ==
    /\ getCalled
    /\ numEnumCalls = 1
    /\ Len(supportedFmts) = 3
    /\ getArg = supportedFmts[3]
    /\ getResult = 3
    /\ regPc = "run"

\* C9 as stated: after one or more calls the registry equals the registry
\* after exactly one call and holds no two descriptors for one format.
C9_Idempotent ==
    numEnumCalls >= 1 =>
        /\ outputFormatDescription = [i \in 1 .. Len(supportedFmts) |-> Describe(supportedFmts[i])]
        /\ \A i, j \in 1 .. Len(outputFormatDescription) :
              outputFormatDescription[i].skryOutpFmt = outputFormatDescription[j].skryOutpFmt
                  => i = j

\* C9 amended: every call appends one descriptor per reported format, so
\* after n calls the registry is the one-call registry repeated n times.
C9_EachCallAppends ==
    /\ Len(outputFormatDescription) = numEnumCalls * Len(supportedFmts)
    /\ \A i \in 1 .. Len(outputFormatDescription) :
          outputFormatDescription[i] =
              Describe(supportedFmts[((i - 1) % Len(supportedFmts)) + 1])

C9_Witness ==
    /\ numEnumCalls = 2
    /\ Len(supportedFmts) = 2
    /\ Len(outputFormatDescription) = 4
    /\ outputFormatDescription[3].skryOutpFmt = outputFormatDescription[1].skryOutpFmt

====
